---- MODULE Spec2Model ----
(***************************************************************************)
(* Model of the Duckity WASM SDK (duckity-dev/sdks, wasm/):                *)
(*   - the wasm-bindgen glue of wasm/pkg/duckity.js (Challenge, Solution,  *)
(*     DuckityClient wrappers over native handles),                        *)
(*   - the worker of wasm/js/src/worker.ts (self.onmessage and             *)
(*     waitForMessage),                                                    *)
(*   - the facade of wasm/js/src/duckity.ts (DuckityClient.solve).         *)
(* The compiled engine (duckity_bg.wasm) is not part of the sources; the   *)
(* exports the glue calls (challenge_solve, solution_encode,               *)
(* solution_raw_size, duckityclient_with_domain) are modelled from the     *)
(* written specification, sections 3, 4.1, 4.2 and 4.4.                    *)
(***************************************************************************)
EXTENDS Integers, Sequences, FiniteSets, TLC

VARIABLES
    clients,    \* main thread: the DuckityClient objects, <<[domain]>>
    calls,      \* main thread: one record per DuckityClient.solve invocation
    workers,    \* one record per Worker created (its global scope)
    listeners,  \* per Worker object: the listeners registered on it
    events,     \* per Worker object: events queued for dispatch in the parent
    heap,       \* pkg session: the native objects of one wasm instance
    objs,       \* pkg session: the JS wrappers made over that instance
    tokens,     \* pkg session: the strings encode() has returned
    sizes,      \* pkg session: the numbers raw_size() has returned
    loader,     \* the glue's module state: `wasm` and the init calls made
    life,       \* wrapper lifetimes: handles, free() calls, finalizer runs
    closure     \* one closure made by makeMutClosure and what was done to it

vars == <<clients, calls, workers, listeners, events, heap, objs, tokens, sizes,
          loader, life, closure>>
dispatchVars == <<clients, calls, workers, listeners, events>>
pkgVars == <<heap, objs, tokens, sizes>>
glueVars == <<loader, life, closure>>

(***************************************************************************)
(* Bounds of the model.                                                    *)
(***************************************************************************)
MaxCalls == 2        \* solve invocations explored
MaxSeed == 3         \* seeds are 0..MaxSeed
DigestBits == 4      \* width of the modelled digest
MaxAttempts == 8     \* the attempt cap of the search
MaxSolves == 2       \* Challenge.solve calls explored in the pkg session
MaxChallenges == 1   \* challenges fetched in the pkg session
MaxReturns == 2      \* distinct encode and raw_size results kept in the pkg session
MaxEvents == 2       \* events an arbitrary worker fires at its Worker object
Clock == 1           \* the instant at which solving starts

(***************************************************************************)
(* Values.                                                                 *)
(***************************************************************************)
DefaultDomain == "quack.duckity.dev"
Domains == {DefaultDomain, "quack.example.com"}
AppIds == {"app-1"}
ProfileCodes == {"profile-9"}
Undefined == "undefined"

\* a challenge as the server issues it (section 3 of the specification)
Challenges ==
    [seed : 0..MaxSeed, difficulty : 0..(DigestBits + 1),
     expiresAt : {0, Clock + 1}, appId : AppIds, profileCode : ProfileCodes]

RECURSIVE Pow2(_)
Pow2(n) == IF n = 0 THEN 1 ELSE 2 * Pow2(n - 1)

(***************************************************************************)
(* The engine behind the wasm exports.                                     *)
(***************************************************************************)
\* digest(seed ++ proof): a fixed mixing function of DigestBits bits
Digest(seed, proof) == (7 * seed + 5 * proof + 3) % Pow2(DigestBits)

\* the difficulty predicate: at least `difficulty` leading zero bits
Satisfies(d, difficulty) ==
    /\ difficulty <= DigestBits
    /\ d < Pow2(DigestBits - difficulty)

verify(ch, proof) == Satisfies(Digest(ch.seed, proof), ch.difficulty)

\* the search: candidates from 0 upwards, capped at MaxAttempts attempts;
\* the result is <<proof>>, or << >> when the cap is reached
RECURSIVE Search(_, _)
Search(ch, candidate) ==
    IF candidate >= MaxAttempts THEN << >>
    ELSE IF verify(ch, candidate) THEN <<candidate>>
    ELSE Search(ch, candidate + 1)

Expired(ch) == ch.expiresAt < Clock

\* the identifying bytes of a challenge in the token
AppIdByte(a) == IF a = "app-1" THEN 1 ELSE 2
ProfileByte(p) == IF p = "profile-9" THEN 9 ELSE 0

\* the seed is an opaque byte sequence: seed n stands for a seed of n bytes
SeedBytes(seed) == [i \in 1..seed |-> 254 - i]

\* the pre-encoding serialized form of a solution: a fixed layout of bytes,
\* the challenge (its seed with the length in front) and then the proof
Serialize(ch, proof) ==
    <<ch.seed>> \o SeedBytes(ch.seed)
    \o <<ch.difficulty, AppIdByte(ch.appId), ProfileByte(ch.profileCode),
         ch.expiresAt, proof>>

Alphabet ==
    <<"A","B","C","D","E","F","G","H","I","J","K","L","M","N","O","P",
      "Q","R","S","T","U","V","W","X","Y","Z","a","b","c","d","e","f",
      "g","h","i","j","k","l","m","n","o","p","q","r","s","t","u","v",
      "w","x","y","z","0","1","2","3","4","5","6","7","8","9","-","_">>

Sextet(n) == Alphabet[n + 1]

\* URL-safe base64 without padding, three bytes to four characters
RECURSIVE Base64Url(_)
Base64Url(bytes) ==
    IF Len(bytes) = 0 THEN << >>
    ELSE IF Len(bytes) = 1 THEN
        <<Sextet(bytes[1] \div 4), Sextet((bytes[1] % 4) * 16)>>
    ELSE IF Len(bytes) = 2 THEN
        <<Sextet(bytes[1] \div 4),
          Sextet((bytes[1] % 4) * 16 + bytes[2] \div 16),
          Sextet((bytes[2] % 16) * 4)>>
    ELSE
        <<Sextet(bytes[1] \div 4),
          Sextet((bytes[1] % 4) * 16 + bytes[2] \div 16),
          Sextet((bytes[2] % 16) * 4 + bytes[3] \div 64),
          Sextet(bytes[3] % 64)>>
        \o Base64Url(SubSeq(bytes, 4, Len(bytes)))

Token(ch, proof) == Base64Url(Serialize(ch, proof))

(***************************************************************************)
(* Native objects and the wasm exports.  A heap is a sequence of native    *)
(* objects; a pointer is an index into it, 0 is the null pointer.  A call  *)
(* returns [ok, heap, ret, err].                                           *)
(***************************************************************************)
NativeChallenge(ch) == [kind |-> "challenge", ch |-> ch, proof |-> 0]
NativeSolution(ch, proof) == [kind |-> "solution", ch |-> ch, proof |-> proof]
NativeClient(domain) == [kind |-> "client", domain |-> domain]

Threw(h, e) == [ok |-> FALSE, heap |-> h, ret |-> 0, err |-> e]
Returned(h, r) == [ok |-> TRUE, heap |-> h, ret |-> r, err |-> ""]

\* wasm.challenge_solve(ptr)
challenge_solve(h, ptr) ==
    IF ptr = 0 \/ ptr > Len(h) THEN Threw(h, "NullPointer")
    ELSE IF h[ptr].kind # "challenge" THEN Threw(h, "NullPointer")
    ELSE IF Expired(h[ptr].ch) THEN Threw(h, "Expired")
    ELSE LET found == Search(h[ptr].ch, 0) IN
         IF found = << >> THEN Threw(h, "Unsatisfiable")
         ELSE Returned(Append(h, NativeSolution(h[ptr].ch, found[1])), Len(h) + 1)

\* wasm.solution_encode(ptr): the token, as the string the glue decodes
solution_encode(h, ptr) ==
    IF ptr = 0 \/ ptr > Len(h) THEN << >>
    ELSE IF h[ptr].kind # "solution" THEN << >>
    ELSE Token(h[ptr].ch, h[ptr].proof)

\* wasm.duckityclient_with_domain(ptr0, len0): a client for that domain
duckityclient_with_domain(h, domain) ==
    Returned(Append(h, NativeClient(domain)), Len(h) + 1)

\* wasm.solution_raw_size(ptr): the byte length of the serialized form
solution_raw_size(h, ptr) ==
    IF ptr = 0 \/ ptr > Len(h) THEN 0
    ELSE IF h[ptr].kind # "solution" THEN 0
    ELSE Len(Serialize(h[ptr].ch, h[ptr].proof))

(***************************************************************************)
(* The glue classes of wasm/pkg/duckity.js.                                *)
(***************************************************************************)
\* Challenge.__wrap(ptr) and Solution.__wrap(ptr)
Challenge__wrap(ptr) == [cls |-> "Challenge", wbg_ptr |-> ptr]
Solution__wrap(ptr) == [cls |-> "Solution", wbg_ptr |-> ptr]
DuckityClient__wrap(ptr) == [cls |-> "DuckityClient", wbg_ptr |-> ptr]

\* DuckityClient.with_domain(domain): the result's ret is the client wrapper
DuckityClient_with_domain(h, domain) ==
    LET r == duckityclient_with_domain(h, domain) IN
    [r EXCEPT !.ret = DuckityClient__wrap(r.ret)]

\* a slip of the glue: solve wraps its own handle instead of the returned one
Challenge_solve_wrapsThis(h, this) ==
    LET r == challenge_solve(h, this.wbg_ptr) IN
    [r EXCEPT !.ret = Solution__wrap(this.wbg_ptr)]

\* a slip of the glue: a throw of the export is swallowed and a wrapper made
Challenge_solve_swallowsThrow(h, this) ==
    LET r == challenge_solve(h, this.wbg_ptr) IN
    [ok |-> TRUE, heap |-> r.heap, ret |-> Solution__wrap(r.ret), err |-> ""]

\* Challenge.solve(): the result's ret is the Solution wrapper
Challenge_solve(h, this) ==
    LET r == challenge_solve(h, this.wbg_ptr) IN
    IF r.ok THEN [r EXCEPT !.ret = Solution__wrap(r.ret)]
    ELSE [r EXCEPT !.ret = Solution__wrap(0)]

\* a slip of the glue: the returned string is decoded with a length of zero
Solution_encode_zeroLength(h, this) == SubSeq(solution_encode(h, this.wbg_ptr), 1, 0)

\* Solution.encode()
Solution_encode(h, this) == solution_encode(h, this.wbg_ptr)

\* `ret >>> 0`: the conversion of a wasm i32 to an unsigned 32-bit number,
\* n modulo 2^32, written over the two 16-bit halves of n
ToUint32(n) == (n % 65536) + 65536 * ((n \div 65536) % 65536)

\* a slip of the glue: raw_size reports the length of the encoded string
Solution_raw_size_encodedLength(h, this) == Len(solution_encode(h, this.wbg_ptr))

\* Solution.raw_size()
Solution_raw_size(h, this) == ToUint32(solution_raw_size(h, this.wbg_ptr))

\* a slip of the glue: encode takes the Solution by value, as a method over
\* `self` would: the handle is destroyed into the call
Solution_encode_consuming(h, this) ==
    [heap |-> IF this.wbg_ptr \in 1..Len(h)
              THEN [h EXCEPT ![this.wbg_ptr] = [kind |-> "freed"]]
              ELSE h,
     this |-> [this EXCEPT !.wbg_ptr = 0],
     ret |-> Solution_encode(h, this)]

\* a call of solution.encode() as a whole: the heap and the wrapper it leaves
\* behind and the string it returns; the handle is passed by reference
Solution_encode_call(h, this) ==
    [heap |-> h, this |-> this, ret |-> Solution_encode(h, this)]

\* get_challenge resolving with a challenge: the engine allocates it and
\* calls the import __wbg_challenge_new, which wraps the handle
challenge_new(h, ch) ==
    Returned(Append(h, NativeChallenge(ch)), Challenge__wrap(Len(h) + 1))

(***************************************************************************)
(* The pkg session: one wasm instance used directly through the glue.      *)
(***************************************************************************)
InitPkg ==
    /\ heap = << >>
    /\ objs = << >>
    /\ tokens = {}
    /\ sizes = {}

\* the challenges the pkg session is given: trivial, easy, hardest and
\* impossible difficulties, fresh and expired, every seed
PkgChallenges ==
    {ch \in Challenges : ch.difficulty \in {0, 1, DigestBits, DigestBits + 1}}

NumChallenges == Cardinality({i \in 1..Len(objs) : objs[i].obj.cls = "Challenge"})
NumSolves == Cardinality({i \in 1..Len(objs) : objs[i].obj.cls = "Solution"})

\* DuckityClient.get_challenge resolves with a Challenge
PkgGetChallenge(ch) ==
    /\ NumChallenges < MaxChallenges
    /\ LET r == challenge_new(heap, ch) IN
       /\ heap' = r.heap
       /\ objs' = Append(objs, [obj |-> r.ret, from |-> 0, err |-> ""])
    /\ UNCHANGED <<dispatchVars, glueVars, tokens, sizes>>

\* challenge.solve() on wrapper i; a throw leaves a record of the error
PkgSolve(i) ==
    /\ NumSolves < MaxSolves
    /\ objs[i].obj.cls = "Challenge"
    /\ LET r == Challenge_solve(heap, objs[i].obj) IN
       /\ heap' = r.heap
       /\ objs' = Append(objs, [obj |-> r.ret, from |-> i, err |-> r.err])
    /\ UNCHANGED <<dispatchVars, glueVars, tokens, sizes>>

NumReturns == Cardinality(tokens) + Cardinality(sizes)

\* solution.encode() on wrapper i, a Solution that solve returned
PkgEncode(i) ==
    /\ NumReturns < MaxReturns
    /\ objs[i].obj.cls = "Solution"
    /\ objs[i].err = ""
    /\ LET e == Solution_encode_call(heap, objs[i].obj) IN
       /\ heap' = e.heap
       /\ objs' = [objs EXCEPT ![i].obj = e.this]
       /\ tokens' = tokens \cup {[sol |-> i, token |-> e.ret]}
    /\ UNCHANGED <<dispatchVars, glueVars, sizes>>

\* solution.raw_size() on wrapper i
PkgRawSize(i) ==
    /\ NumReturns < MaxReturns
    /\ objs[i].obj.cls = "Solution"
    /\ objs[i].err = ""
    /\ sizes' = sizes \cup {[sol |-> i, size |-> Solution_raw_size(heap, objs[i].obj)]}
    /\ UNCHANGED <<dispatchVars, glueVars, heap, objs, tokens>>

NextPkg ==
    \/ \E ch \in PkgChallenges : PkgGetChallenge(ch)
    \/ \E i \in 1..Len(objs) : PkgSolve(i)
    \/ \E i \in 1..Len(objs) : PkgEncode(i)
    \/ \E i \in 1..Len(objs) : PkgRawSize(i)

(***************************************************************************)
(* Initialisation of the module (duckity.js: __wbg_init, initSync).        *)
(***************************************************************************)
MaxInits == 3

\* `let wasm;`: 0 stands for undefined, n > 0 for the exports of the n-th
\* instance.  instances counts the WebAssembly instances created, starts the
\* calls of __wbindgen_start, calls logs every call of an entry point.
InitLoader == loader = [wasm |-> 0, instances |-> 0, starts |-> 0, calls |-> << >>]

InitCalls == 1..Len(loader.calls)

\* __wbg_finalize_init: wasm = instance.exports; wasm.__wbindgen_start().
wbg_finalize_init(l, instance) ==
    [l EXCEPT !.wasm = instance, !.starts = @ + 1]

InitCall(kind, pc, ret) == [kind |-> kind, pc |-> pc, ret |-> ret]

\* new WebAssembly.Instance / WebAssembly.instantiate, then __wbg_finalize_init;
\* the call returns what __wbg_finalize_init returns.
Instantiate(l) ==
    LET instance == l.instances + 1
    IN  wbg_finalize_init([l EXCEPT !.instances = instance], instance)

\* initSync(module): the guard, then compile (which may throw), instantiate
\* and finish, all in one synchronous run.
initSync(ok) ==
    /\ Len(loader.calls) < MaxInits
    /\ loader' =
         IF loader.wasm # 0
         THEN [loader EXCEPT !.calls = Append(@, InitCall("initSync", "returned", loader.wasm))]
         ELSE IF ~ok
              THEN [loader EXCEPT !.calls = Append(@, InitCall("initSync", "failed", 0))]
              ELSE LET l == Instantiate(loader)
                   IN  [l EXCEPT !.calls = Append(@, InitCall("initSync", "returned", l.wasm))]
    /\ UNCHANGED <<dispatchVars, pkgVars, life, closure>>

\* __wbg_init(module_or_path) up to its await: the guard, then the load is
\* started and the call is suspended.
wbg_init ==
    /\ Len(loader.calls) < MaxInits
    /\ loader' =
         IF loader.wasm # 0
         THEN [loader EXCEPT !.calls = Append(@, InitCall("__wbg_init", "returned", loader.wasm))]
         ELSE [loader EXCEPT !.calls = Append(@, InitCall("__wbg_init", "loading", 0))]
    /\ UNCHANGED <<dispatchVars, pkgVars, life, closure>>

\* __wbg_init resumes: __wbg_load has instantiated the module (or thrown), and
\* the call goes on to __wbg_finalize_init without looking at wasm again.
wbg_load(i, ok) ==
    /\ loader.calls[i].pc = "loading"
    /\ loader' =
         IF ~ok
         THEN [loader EXCEPT !.calls[i].pc = "failed"]
         ELSE LET l == Instantiate(loader)
              IN  [l EXCEPT !.calls[i].pc = "returned", !.calls[i].ret = l.wasm]
    /\ UNCHANGED <<dispatchVars, pkgVars, life, closure>>

NextInit ==
    \/ \E ok \in BOOLEAN : initSync(ok)
    \/ wbg_init
    \/ \E i \in InitCalls, ok \in BOOLEAN : wbg_load(i, ok)

(***************************************************************************)
(* Lifetimes of the wrappers (duckity.js: free, finalizers, encode).       *)
(***************************************************************************)
MaxLifeObjs == 3
MaxLifeOps == 5

\* heap is the native heap of the instance, objs the wrappers made so far,
\* frees the calls of the native free exports, passed the pointers the
\* methods handed to their exports, encodes the calls of encode.
InitLife ==
    life = [heap |-> << >>, objs |-> << >>, frees |-> << >>,
            passed |-> << >>, encodes |-> << >>]

LifeObjs == 1..Len(life.objs)
LifeOps == Len(life.frees) + Len(life.passed)

\* X.__wrap(ptr) with its XFinalization.register(obj, obj.__wbg_ptr, obj):
\* held is the value the registry holds for the finalizer
Registered(obj) ==
    [obj |-> obj, held |-> obj.wbg_ptr, registered |-> TRUE,
     collected |-> FALSE, freed |-> FALSE]

\* a slip of the glue: the wrapper stays registered with its finalizer
destroy_into_raw_staysRegistered(w) ==
    [this |-> [w EXCEPT !.obj.wbg_ptr = 0], ptr |-> w.obj.wbg_ptr]

\* a slip of the glue: the wrapper keeps its pointer
destroy_into_raw_keepsPointer(w) ==
    [this |-> [w EXCEPT !.registered = FALSE], ptr |-> w.obj.wbg_ptr]

\* __destroy_into_raw(): the pointer is taken out of the wrapper, the wrapper
\* is left with 0 and is unregistered
destroy_into_raw(w) ==
    [this |-> [w EXCEPT !.obj.wbg_ptr = 0, !.registered = FALSE],
     ptr |-> w.obj.wbg_ptr]

Live(h, ptr) == ptr \in 1..Len(h) /\ h[ptr].kind # "freed"

\* wasm.__wbg_challenge_free, __wbg_duckityclient_free, __wbg_solution_free:
\* the object at a non-null pointer is dropped; addresses are not reused
wbg_free(h, ptr) ==
    IF Live(h, ptr) THEN [h EXCEPT ![ptr] = [kind |-> "freed"]] ELSE h

FreeCall(i, ptr, delayed) == [obj |-> i, ptr |-> ptr, delayed |-> delayed]
MethodCall(i, op, ptr) ==
    [obj |-> i, op |-> op, ptr |-> ptr, afterFree |-> life.objs[i].freed]

\* the challenge a client of this session is given
LifeChallenge ==
    [seed |-> 1, difficulty |-> 1, expiresAt |-> Clock + 1,
     appId |-> "app-1", profileCode |-> "profile-9"]

\* DuckityClient.with_domain(domain)
LifeWithDomain ==
    /\ Len(life.objs) < MaxLifeObjs
    /\ LET r == DuckityClient_with_domain(life.heap, DefaultDomain) IN
       life' = [life EXCEPT !.heap = r.heap,
                            !.objs = Append(@, Registered(r.ret))]
    /\ UNCHANGED <<dispatchVars, pkgVars, loader, closure>>

\* client.get_challenge(app_id, profile_code) resolving: the export is given
\* this.__wbg_ptr, and a challenge is wrapped unless the pointer is rejected
LifeGetChallenge(i) ==
    /\ LifeOps < MaxLifeOps
    /\ life.objs[i].obj.cls = "DuckityClient"
    /\ ~life.objs[i].collected
    /\ LET ptr == life.objs[i].obj.wbg_ptr
           call == MethodCall(i, "get_challenge", ptr)
       IN  IF Live(life.heap, ptr) /\ Len(life.objs) < MaxLifeObjs
           THEN LET r == challenge_new(life.heap, LifeChallenge) IN
                life' = [life EXCEPT !.heap = r.heap,
                                     !.objs = Append(@, Registered(r.ret)),
                                     !.passed = Append(@, call)]
           ELSE life' = [life EXCEPT !.passed = Append(@, call)]
    /\ UNCHANGED <<dispatchVars, pkgVars, loader, closure>>

\* challenge.solve(): the export is given this.__wbg_ptr; a throw of the
\* export leaves no wrapper
LifeSolve(i) ==
    /\ LifeOps < MaxLifeOps
    /\ life.objs[i].obj.cls = "Challenge"
    /\ ~life.objs[i].collected
    /\ LET ptr == life.objs[i].obj.wbg_ptr
           call == MethodCall(i, "solve", ptr)
           r == Challenge_solve(life.heap, life.objs[i].obj)
       IN  IF r.ok /\ Len(life.objs) < MaxLifeObjs
           THEN life' = [life EXCEPT !.heap = r.heap,
                                     !.objs = Append(@, Registered(r.ret)),
                                     !.passed = Append(@, call)]
           ELSE life' = [life EXCEPT !.passed = Append(@, call)]
    /\ UNCHANGED <<dispatchVars, pkgVars, loader, closure>>

\* solution.raw_size(): the export is given this.__wbg_ptr
LifeRawSize(i) ==
    /\ LifeOps < MaxLifeOps
    /\ life.objs[i].obj.cls = "Solution"
    /\ ~life.objs[i].collected
    /\ life' = [life EXCEPT !.passed =
                  Append(@, MethodCall(i, "raw_size", life.objs[i].obj.wbg_ptr))]
    /\ UNCHANGED <<dispatchVars, pkgVars, loader, closure>>

Step(op, ptr, len) == [op |-> op, ptr |-> ptr, len |-> len]

\* the string buffer solution_encode returns for a live solution: a fresh
\* allocation past the objects of the heap, as long as the token
EncodeBuffer(h, ptr) ==
    [ptr |-> Len(h) + 1, len |-> Len(solution_encode(h, ptr))]

\* a slip of the glue: the buffer is released after a successful decode only
Solution_encode_steps_noFinally(h, this, decodes) ==
    IF ~Live(h, this.wbg_ptr)
    THEN <<Step("solution_encode", this.wbg_ptr, 0)>>
    ELSE LET ret == EncodeBuffer(h, this.wbg_ptr) IN
         <<Step("solution_encode", this.wbg_ptr, 0),
           Step("getStringFromWasm0", ret.ptr, ret.len)>>
         \o (IF decodes THEN <<Step("__wbindgen_free", ret.ptr, ret.len)>>
             ELSE << >>)

\* Solution.encode(): the calls it makes, in order.  solution_encode throws
\* on a pointer that is not a live object, and deferred1_0 and deferred1_1
\* are then still undefined, which the export receives as 0; the decoder is
\* fatal and either returns the string or throws; the finally block runs on
\* every path.
Solution_encode_steps(h, this, decodes) ==
    IF ~Live(h, this.wbg_ptr)
    THEN <<Step("solution_encode", this.wbg_ptr, 0),
           Step("__wbindgen_free", 0, 0)>>
    ELSE LET ret == EncodeBuffer(h, this.wbg_ptr) IN
         <<Step("solution_encode", this.wbg_ptr, 0),
           Step("getStringFromWasm0", ret.ptr, ret.len),
           Step("__wbindgen_free", ret.ptr, ret.len)>>

\* solution.encode() with a decoder that returns the string or throws
LifeEncode(i, decodes) ==
    /\ LifeOps < MaxLifeOps
    /\ life.objs[i].obj.cls = "Solution"
    /\ ~life.objs[i].collected
    /\ LET this == life.objs[i].obj
           returned == Live(life.heap, this.wbg_ptr)
       IN  /\ returned \/ decodes
           /\ life' = [life EXCEPT
                 !.passed = Append(@, MethodCall(i, "encode", this.wbg_ptr)),
                 !.encodes = Append(@,
                    [obj |-> i,
                     threw |-> IF ~returned THEN "solution_encode"
                               ELSE IF ~decodes THEN "getStringFromWasm0"
                               ELSE "",
                     ret |-> IF returned THEN EncodeBuffer(life.heap, this.wbg_ptr)
                             ELSE [ptr |-> 0, len |-> 0],
                     steps |-> Solution_encode_steps(life.heap, this, decodes)])]
    /\ UNCHANGED <<dispatchVars, pkgVars, loader, closure>>

\* x.free(): __destroy_into_raw(), then the native free with what it returned
LifeFree(i) ==
    /\ LifeOps < MaxLifeOps
    /\ ~life.objs[i].collected
    /\ LET d == destroy_into_raw(life.objs[i]) IN
       life' = [life EXCEPT !.objs[i] = [d.this EXCEPT !.freed = TRUE],
                            !.heap = wbg_free(@, d.ptr),
                            !.frees = Append(@, FreeCall(i, d.ptr, 0))]
    /\ UNCHANGED <<dispatchVars, pkgVars, loader, closure>>

\* the wrapper is collected while registered: its finalizer runs with the
\* held pointer (`ptr >>> 0`, delayed)
LifeFinalize(i) ==
    /\ LifeOps < MaxLifeOps
    /\ life.objs[i].registered
    /\ ~life.objs[i].collected
    /\ life' = [life EXCEPT !.objs[i].collected = TRUE,
                            !.objs[i].registered = FALSE,
                            !.heap = wbg_free(@, ToUint32(life.objs[i].held)),
                            !.frees = Append(@, FreeCall(i, ToUint32(life.objs[i].held), 1))]
    /\ UNCHANGED <<dispatchVars, pkgVars, loader, closure>>

NextLife ==
    \/ LifeWithDomain
    \/ \E i \in LifeObjs : LifeGetChallenge(i)
    \/ \E i \in LifeObjs : LifeSolve(i)
    \/ \E i \in LifeObjs : LifeRawSize(i)
    \/ \E i \in LifeObjs, decodes \in BOOLEAN : LifeEncode(i, decodes)
    \/ \E i \in LifeObjs : LifeFree(i)
    \/ \E i \in LifeObjs : LifeFinalize(i)

(***************************************************************************)
(* Closures handed to JavaScript (duckity.js: makeMutClosure).             *)
(***************************************************************************)
MaxDepth == 2
MaxInvokes == 3
MaxUnrefs == 2

\* arg0 of makeMutClosure: the pointer to the Rust environment, not null
EnvPtr == 7

\* state = { a: arg0, b: arg1, cnt: 1, dtor }, registered with CLOSURE_DTORS.
\* stack holds the invocations in progress (the `const a` each saved and the
\* pointer f was given), dtors the calls of state.dtor, unrefsAt the depth at
\* which the wasm side called _wbg_cb_unref, invokes the invocations begun.
InitClosure ==
    closure = [a |-> EnvPtr, cnt |-> 1, stack |-> << >>, dtors |-> << >>,
               unrefsAt |-> << >>, invokes |-> 0, threw |-> FALSE,
               registered |-> TRUE, collected |-> FALSE]

Depth == Len(closure.stack)

\* a slip of the glue: the invocation leaves state.a in place
real_enter_keepsA(st) ==
    [st EXCEPT !.cnt = @ + 1,
               !.stack = Append(@, [saved |-> st.a, got |-> st.a])]

\* real(...args) up to the call of f: state.cnt++; const a = state.a;
\* state.a = 0; f(a, state.b, ...args)
real_enter(st) ==
    [st EXCEPT !.cnt = @ + 1,
               !.a = 0,
               !.stack = Append(@, [saved |-> st.a, got |-> st.a])]

\* a slip of the glue: the destructor leaves state.a in place
cb_unref_keepsA(st, by) ==
    IF st.cnt - 1 = 0
    THEN [st EXCEPT !.cnt = 0,
                    !.dtors = Append(@, [a |-> st.a, by |-> by, depth |-> Len(st.stack)]),
                    !.registered = FALSE]
    ELSE [st EXCEPT !.cnt = @ - 1]

\* real._wbg_cb_unref(): if (--state.cnt === 0) { state.dtor(state.a, state.b);
\* state.a = 0; CLOSURE_DTORS.unregister(state) }
cb_unref(st, by) ==
    IF st.cnt - 1 = 0
    THEN [st EXCEPT !.cnt = 0,
                    !.dtors = Append(@, [a |-> st.a, by |-> by, depth |-> Len(st.stack)]),
                    !.a = 0,
                    !.registered = FALSE]
    ELSE [st EXCEPT !.cnt = @ - 1]

\* the finally block of real: state.a = a; real._wbg_cb_unref()
real_finally(st) ==
    LET top == st.stack[Len(st.stack)] IN
    cb_unref([st EXCEPT !.a = top.saved,
                        !.stack = SubSeq(@, 1, Len(@) - 1)], "real")

\* the closure is called: from JavaScript, or from inside a call in progress
Invoke ==
    /\ ~closure.collected
    /\ closure.invokes < MaxInvokes
    /\ Depth < MaxDepth
    /\ closure' = [real_enter(closure) EXCEPT !.invokes = @ + 1]
    /\ UNCHANGED <<dispatchVars, pkgVars, loader, life>>

\* the innermost call of f returns or throws; the finally block runs
Return(throws) ==
    /\ Depth > 0
    /\ closure' = [real_finally(closure) EXCEPT !.threw = throws]
    /\ UNCHANGED <<dispatchVars, pkgVars, loader, life>>

\* the import __wbg__wbg_cb_unref: the wasm side drops a reference
Unref ==
    /\ ~closure.collected
    /\ Len(closure.unrefsAt) < MaxUnrefs
    /\ closure' = [cb_unref(closure, "wasm") EXCEPT !.unrefsAt = Append(@, Depth)]
    /\ UNCHANGED <<dispatchVars, pkgVars, loader, life>>

\* CLOSURE_DTORS: real is collected while registered, which cannot happen
\* during a call; the registry calls state.dtor(state.a, state.b)
Finalize ==
    /\ closure.registered
    /\ ~closure.collected
    /\ Depth = 0
    /\ closure' = [closure EXCEPT
          !.dtors = Append(@, [a |-> closure.a, by |-> "registry", depth |-> 0]),
          !.registered = FALSE,
          !.collected = TRUE]
    /\ UNCHANGED <<dispatchVars, pkgVars, loader, life>>

NextClosure ==
    \/ Invoke
    \/ \E throws \in BOOLEAN : Return(throws)
    \/ Unref
    \/ Finalize

(***************************************************************************)
(* The main thread (wasm/js/src/duckity.ts) and the worker                 *)
(* (wasm/js/src/worker.ts).                                                *)
(***************************************************************************)
\* new DuckityClient(domain): the default applies when no argument is given
DuckityClient(domain) ==
    [domain |-> IF domain = Undefined THEN DefaultDomain ELSE domain]

\* the ChallengeRequest that solve posts
ChallengeRequest(client, appId, profileCode) ==
    [domain |-> client.domain, appId |-> appId, profileCode |-> profileCode]

\* a slip: the promise handed back is already resolved, with no token
SettledPromise == [state |-> "resolved", value |-> << >>, error |-> << >>]

\* a promise and its resolve and reject functions: the first call settles
PendingPromise == [state |-> "pending", value |-> << >>, error |-> << >>]
resolve(p, v) ==
    IF p.state = "pending"
    THEN [state |-> "resolved", value |-> v, error |-> << >>]
    ELSE p
reject(p, e) ==
    IF p.state = "pending"
    THEN [state |-> "rejected", value |-> << >>, error |-> e]
    ELSE p

ErrorPrefix == "An error occurred while solving a Duckity challenge: "

\* a Worker just created: its script is loading, nothing has reached it
NewWorker ==
    [state |-> "loading", inbox |-> << >>, runs |-> << >>, wasm |-> FALSE,
     heap |-> << >>, terminated |-> FALSE, emitted |-> 0]

\* a slip: one module-level worker serves every call
sharedWorkerId(ws) == 1

\* `new Worker(workerUrl, ...)` in solve: every call makes a worker of its own
newWorkerId(ws) == Len(ws) + 1

\* a slip: the listeners go on the first worker made, not the one passed in
waitForMessage_firstWorker(ls, worker, call) ==
    [ls EXCEPT ![1] = @ \cup {[type |-> "message", call |-> call],
                              [type |-> "error", call |-> call]}]

\* waitForMessage(worker): both listeners are added to the worker passed in
waitForMessage(ls, worker, call) ==
    [ls EXCEPT ![worker] = @ \cup {[type |-> "message", call |-> call],
                                   [type |-> "error", call |-> call]}]

\* a slip: solve remembers its arguments on the client
clientAfterSolve_remembers(client, appId, profileCode) ==
    [domain |-> client.domain, appId |-> appId, profileCode |-> profileCode]

\* the client object when solve returns: solve only reads this.domain
clientAfterSolve(client, appId, profileCode) == client

\* DuckityClient.solve(appId, profileCode) on client k
solve(k, appId, profileCode) ==
    /\ Len(calls) < MaxCalls
    /\ LET w == newWorkerId(workers)
           c == Len(calls) + 1
           req == ChallengeRequest(clients[k], appId, profileCode)
           made == IF w > Len(workers) THEN Append(workers, NewWorker) ELSE workers
           lsn == IF w > Len(workers) THEN Append(listeners, {}) ELSE listeners
       IN
       /\ workers' = [made EXCEPT ![w].inbox = Append(@, req)]
       /\ listeners' = waitForMessage(lsn, w, c)
       /\ events' = IF w > Len(workers) THEN Append(events, << >>) ELSE events
       /\ calls' = Append(calls,
              [client |-> k, appId |-> appId, profileCode |-> profileCode,
               domainAtCall |-> clients[k].domain,
               request |-> req, worker |-> w, delivered |-> 0, dropped |-> FALSE,
               pc |-> "waiting", handled |-> << >>,
               promise |-> PendingPromise])
       /\ clients' = [clients EXCEPT ![k] = clientAfterSolve(@, appId, profileCode)]
    /\ UNCHANGED <<pkgVars, glueVars>>

\* solve up to and including worker.postMessage (duckity.ts lines 23 to 30):
\* the worker exists and has the request, nothing listens to it yet
solvePost(k, appId, profileCode) ==
    /\ Len(calls) < MaxCalls
    /\ \A c \in 1..Len(calls) : calls[c].pc # "posted"
    /\ LET w == newWorkerId(workers)
           req == ChallengeRequest(clients[k], appId, profileCode)
       IN
       /\ workers' = Append(workers, [NewWorker EXCEPT !.inbox = <<req>>])
       /\ listeners' = Append(listeners, {})
       /\ events' = Append(events, << >>)
       /\ calls' = Append(calls,
              [client |-> k, appId |-> appId, profileCode |-> profileCode,
               domainAtCall |-> clients[k].domain,
               request |-> req, worker |-> w, delivered |-> 0, dropped |-> FALSE,
               pc |-> "posted", handled |-> << >>,
               promise |-> PendingPromise])
    /\ UNCHANGED <<clients, pkgVars, glueVars>>

\* the rest of solve: `return waitForMessage(worker)` (duckity.ts line 32)
solveWait(c) ==
    /\ calls[c].pc = "posted"
    /\ listeners' = waitForMessage(listeners, calls[c].worker, c)
    /\ calls' = [calls EXCEPT ![c].pc = "waiting"]
    /\ UNCHANGED <<clients, workers, events, pkgVars, glueVars>>

\* what a Worker object may have fired at it
WorkerEvents ==
    {[type |-> "message", data |-> <<"A">>, error |-> ""],
     [type |-> "error", data |-> << >>, error |-> Undefined]}

\* the worker, running on its own thread, has an event fired at the Worker
\* object: waitForMessage takes any Worker, whatever script it runs
WorkerEmits(w, ev) ==
    /\ workers[w].emitted < MaxEvents
    /\ workers' = [workers EXCEPT ![w].emitted = @ + 1]
    /\ events' = [events EXCEPT ![w] = Append(@, ev)]
    /\ UNCHANGED <<clients, calls, listeners, pkgVars, glueVars>>

\* a slip: solve awaits something between postMessage and waitForMessage, so
\* the main thread takes other tasks before the listeners are registered
MainIdle_awaitBeforeListen == TRUE

\* solve is synchronous: the main thread takes the next task, such as the
\* dispatch of an event, only when no solve call is part-way through
MainIdle == \A c \in 1..Len(calls) : calls[c].pc # "posted"

\* `client.domain = d`: the caller assigns the public field
SetDomain(k, d) ==
    /\ clients[k].domain # d
    /\ clients' = [clients EXCEPT ![k].domain = d]
    /\ UNCHANGED <<calls, workers, listeners, events, pkgVars, glueVars>>

\* the worker's script has been fetched and evaluated: onmessage is set
WorkerLoaded(w) ==
    /\ workers[w].state = "loading"
    /\ workers' = [workers EXCEPT ![w].state = "ready"]
    /\ UNCHANGED <<clients, calls, listeners, events, pkgVars, glueVars>>

\* the worker's script cannot be loaded (a worker that is not same-origin is
\* blocked): an error event is fired at the Worker object
WorkerLoadError(w) ==
    /\ workers[w].state = "loading"
    /\ workers' = [workers EXCEPT ![w].state = "loaderror"]
    /\ events' = [events EXCEPT ![w] =
                     Append(@, [type |-> "error", data |-> << >>, error |-> Undefined])]
    /\ UNCHANGED <<clients, calls, listeners, pkgVars, glueVars>>

\* self.onmessage is called with the next request: the handler runs up to
\* `await init()`
OnMessage(w) ==
    /\ workers[w].state = "ready"
    /\ workers[w].inbox # << >>
    /\ workers' = [workers EXCEPT
          ![w].inbox = Tail(@),
          ![w].runs = Append(@, [data |-> Head(workers[w].inbox), pc |-> "init",
                                 args |-> << >>,
                                 challenge |-> << >>, posted |-> << >>,
                                 err |-> "", steps |-> <<"init">>])]
    /\ UNCHANGED <<clients, calls, listeners, events, pkgVars, glueVars>>

\* a slip: a rejected fetch is tried again
Reject_retry(run, err) ==
    IF run.pc = "fetch" /\ Len(run.steps) < 4
    THEN [run EXCEPT !.steps = Append(@, "fetch")]
    ELSE [run EXCEPT !.pc = "failed", !.err = err]

\* an await that rejects, or a call that throws, ends the async handler: its
\* promise is rejected and nobody handles it; nothing is posted to the parent
Reject(run, err) == [run EXCEPT !.pc = "failed", !.err = err]

\* a slip: the domain is read from the client object when the worker starts
\* the fetch, not taken from the message
eventData_liveDomain(w, r) ==
    LET c == CHOOSE c \in 1..Len(calls) : calls[c].worker = w IN
    [workers[w].runs[r].data EXCEPT !.domain = clients[calls[c].client].domain]

\* `const { data } = event`: the request as it was posted
eventData(w, r) == workers[w].runs[r].data

\* a slip: the worker makes its client with `new DuckityClient()`
get_challenge_call_defaultClient(h, data) ==
    LET c == DuckityClient_with_domain(h, DefaultDomain) IN
    [heap |-> c.heap,
     args |-> [domain |-> DefaultDomain, appId |-> data.appId,
               profileCode |-> data.profileCode]]

\* `wasm.DuckityClient.with_domain(domain).get_challenge(appId, profileCode)`
\* up to the await: a wasm client is made for the domain, and args is what
\* with_domain and get_challenge are called with
get_challenge_call(h, data) ==
    LET c == DuckityClient_with_domain(h, data.domain) IN
    [heap |-> c.heap,
     args |-> [domain |-> data.domain, appId |-> data.appId,
               profileCode |-> data.profileCode]]

\* `await init()` has settled; on success the handler goes on to
\* with_domain(domain).get_challenge(appId, profileCode)
AfterInit(w, r, ok) ==
    /\ workers[w].runs[r].pc = "init"
    /\ workers[w].wasm => ok
    /\ LET g == get_challenge_call(workers[w].heap, eventData(w, r)) IN
       workers' = [workers EXCEPT
          ![w].wasm = @ \/ ok,
          ![w].heap = IF ok THEN g.heap ELSE @,
          ![w].runs[r] = IF ok
                         THEN [@ EXCEPT !.pc = "fetch", !.args = <<g.args>>,
                                        !.steps = Append(@, "fetch")]
                         ELSE Reject(@, "InitError")]
    /\ UNCHANGED <<clients, calls, listeners, events, pkgVars, glueVars>>

\* what the server may answer to a request
IssuedTo(req) ==
    {ch \in Challenges : /\ ch.appId = req.appId
                         /\ ch.profileCode = req.profileCode
                         /\ ch.seed = 1
                         /\ ch.difficulty \in {1, 2, DigestBits + 1}}
FetchOutcomes(req) ==
    {[ok |-> TRUE, ch |-> <<ch>>, err |-> ""] : ch \in IssuedTo(req)}
    \cup {[ok |-> FALSE, ch |-> << >>, err |-> e] :
             e \in {"TransportError", "MalformedChallenge"}}

\* a slip: the message is posted before the solution is encoded
SolveEncodePost_postFirst(run, h, ch) ==
    LET c == challenge_new(h, ch)
        s == Challenge_solve(c.heap, c.ret)
    IN
    IF ~s.ok
    THEN [run |-> Reject([run EXCEPT !.challenge = <<ch>>,
                                     !.steps = Append(@, "solve")], s.err),
          heap |-> s.heap, out |-> << >>]
    ELSE [run |-> [run EXCEPT !.pc = "done", !.challenge = <<ch>>,
                              !.posted = << << >> >>,
                              !.steps = @ \o <<"solve", "post", "encode">>],
          heap |-> s.heap,
          out |-> <<[type |-> "message", data |-> << >>, error |-> ""]>>]

\* a slip: the domain of the request finds its way into the challenge solved
SolveEncodePost_domainInSeed(run, h, ch) ==
    LET mixed == IF run.data.domain = DefaultDomain THEN ch
                 ELSE [ch EXCEPT !.seed = (@ + 1) % (MaxSeed + 1)]
        c == challenge_new(h, mixed)
        s == Challenge_solve(c.heap, c.ret)
    IN
    IF ~s.ok
    THEN [run |-> Reject([run EXCEPT !.challenge = <<ch>>,
                                     !.steps = Append(@, "solve")], s.err),
          heap |-> s.heap, out |-> << >>]
    ELSE LET encoded == Solution_encode(s.heap, s.ret) IN
         [run |-> [run EXCEPT !.pc = "done", !.challenge = <<ch>>,
                              !.posted = <<encoded>>,
                              !.steps = @ \o <<"solve", "encode", "post">>],
          heap |-> s.heap,
          out |-> <<[type |-> "message", data |-> encoded, error |-> ""]>>]

\* the rest of the handler once get_challenge has resolved with ch:
\* challenge.solve(), solution.encode(), self.postMessage(encoded)
SolveEncodePost(run, h, ch) ==
    LET c == challenge_new(h, ch)
        s == Challenge_solve(c.heap, c.ret)
    IN
    IF ~s.ok
    THEN [run |-> Reject([run EXCEPT !.challenge = <<ch>>,
                                     !.steps = Append(@, "solve")], s.err),
          heap |-> s.heap, out |-> << >>]
    ELSE LET encoded == Solution_encode(s.heap, s.ret) IN
         [run |-> [run EXCEPT !.pc = "done", !.challenge = <<ch>>,
                              !.posted = <<encoded>>,
                              !.steps = @ \o <<"solve", "encode", "post">>],
          heap |-> s.heap,
          out |-> <<[type |-> "message", data |-> encoded, error |-> ""]>>]

\* `await ...get_challenge(appId, profileCode)` has settled with outcome o
AfterFetch(w, r, o) ==
    /\ workers[w].runs[r].pc = "fetch"
    /\ o \in FetchOutcomes(workers[w].runs[r].args[1])
    /\ IF o.ok
       THEN LET t == SolveEncodePost(workers[w].runs[r], workers[w].heap, o.ch[1]) IN
            /\ workers' = [workers EXCEPT ![w].runs[r] = t.run, ![w].heap = t.heap]
            /\ events' = [events EXCEPT ![w] = @ \o t.out]
       ELSE /\ workers' = [workers EXCEPT ![w].runs[r] = Reject(@, o.err)]
            /\ UNCHANGED events
    /\ UNCHANGED <<clients, calls, listeners, pkgVars, glueVars>>

\* successHandler and errorHandler of waitForMessage, for the call they close over
successHandler(call, ev) ==
    [call EXCEPT !.promise = resolve(@, ev.data), !.delivered = @ + 1,
                 !.handled = Append(@, "success")]
errorHandler(call, ev) ==
    [call EXCEPT !.promise = reject(@, <<ErrorPrefix, ev.error>>), !.delivered = @ + 1,
                 !.handled = Append(@, "error")]

\* a slip: the success handler does not remove itself
Removed_keepsMessage(l) ==
    IF l.type = "message"
    THEN {}
    ELSE {[type |-> "message", call |-> l.call], [type |-> "error", call |-> l.call]}

\* the listeners a handler removes when it runs
Removed(l) ==
    IF l.type = "message"
    THEN {[type |-> "message", call |-> l.call]}
    ELSE {[type |-> "message", call |-> l.call], [type |-> "error", call |-> l.call]}

\* the parent dispatches the next event of Worker w to the listeners of its type
Dispatch(w) ==
    /\ events[w] # << >>
    /\ LET ev == Head(events[w])
           hit == {l \in listeners[w] : l.type = ev.type}
       IN
       /\ events' = [events EXCEPT ![w] = Tail(@)]
       /\ listeners' = [listeners EXCEPT ![w] = @ \ UNION {Removed(l) : l \in hit}]
       /\ calls' = [c \in DOMAIN calls |->
              IF [type |-> ev.type, call |-> c] \in hit
              THEN IF ev.type = "message"
                   THEN successHandler(calls[c], ev)
                   ELSE errorHandler(calls[c], ev)
              ELSE calls[c]]
    /\ UNCHANGED <<clients, workers, pkgVars, glueVars>>

\* the caller loses interest in a pending solve: it can only let go of the
\* promise, solve returns nothing else
DropInterest(c) ==
    /\ calls[c].promise.state = "pending"
    /\ ~calls[c].dropped
    /\ calls' = [calls EXCEPT ![c].dropped = TRUE]
    /\ UNCHANGED <<clients, workers, listeners, events, pkgVars, glueVars>>

InitDispatch ==
    /\ clients = <<DuckityClient(Undefined), DuckityClient("quack.example.com")>>
    /\ calls = << >>
    /\ workers = << >>
    /\ listeners = << >>
    /\ events = << >>

Init == InitDispatch /\ InitPkg /\ InitLoader /\ InitLife /\ InitClosure

Next ==
    \/ \E k \in 1..Len(clients), a \in AppIds, p \in ProfileCodes : solve(k, a, p)
    \/ \E w \in 1..Len(workers) : WorkerLoaded(w)
    \/ \E w \in 1..Len(workers) : WorkerLoadError(w)
    \/ \E w \in 1..Len(workers) : OnMessage(w)
    \/ \E w \in 1..Len(workers), r \in 1..MaxCalls, ok \in BOOLEAN :
          r <= Len(workers[w].runs) /\ AfterInit(w, r, ok)
    \/ \E w \in 1..Len(workers), r \in 1..MaxCalls :
          /\ r <= Len(workers[w].runs)
          /\ workers[w].runs[r].pc = "fetch"
          /\ \E o \in FetchOutcomes(workers[w].runs[r].args[1]) : AfterFetch(w, r, o)
    \/ \E w \in 1..Len(workers) : Dispatch(w)
    \/ \E c \in 1..Len(calls) : DropInterest(c)

Spec == Init /\ [][Next]_vars

\* the clients whose domain the caller assigns to: the one made without an
\* argument; the other keeps the domain it was constructed with
Reassigned == {1}

\* the facade used by a caller that also assigns client.domain between and
\* during calls; workers load and nobody lets go of a promise
NextDomain ==
    \/ \E k \in 1..Len(clients), a \in AppIds, p \in ProfileCodes : solve(k, a, p)
    \/ \E k \in Reassigned, d \in Domains : SetDomain(k, d)
    \/ \E w \in 1..Len(workers) : WorkerLoaded(w)
    \/ \E w \in 1..Len(workers) : OnMessage(w)
    \/ \E w \in 1..Len(workers), r \in 1..MaxCalls, ok \in BOOLEAN :
          r <= Len(workers[w].runs) /\ AfterInit(w, r, ok)
    \/ \E w \in 1..Len(workers), r \in 1..MaxCalls :
          /\ r <= Len(workers[w].runs)
          /\ workers[w].runs[r].pc = "fetch"
          /\ \E o \in FetchOutcomes(workers[w].runs[r].args[1]) : AfterFetch(w, r, o)
    \/ \E w \in 1..Len(workers) : Dispatch(w)

SpecDomain == Init /\ [][NextDomain]_vars

\* solve and waitForMessage over workers that fire any events at any time
NextWait ==
    \/ \E k \in Reassigned, a \in AppIds, p \in ProfileCodes : solvePost(k, a, p)
    \/ \E c \in 1..Len(calls) : solveWait(c)
    \/ \E w \in 1..Len(workers), ev \in WorkerEvents : WorkerEmits(w, ev)
    \/ \E w \in 1..Len(workers) : MainIdle /\ Dispatch(w)

SpecWait == Init /\ [][NextWait]_vars

SpecInit == Init /\ [][NextInit]_vars

SpecLife == Init /\ [][NextLife]_vars

SpecClosure == Init /\ [][NextClosure]_vars

SpecPkg == Init /\ [][NextPkg]_vars

(***************************************************************************)
(* Properties.                                                             *)
(***************************************************************************)
Calls == 1..Len(calls)
Workers == 1..Len(workers)
Runs(w) == 1..Len(workers[w].runs)
StepOrder == <<"init", "fetch", "solve", "encode", "post">>
IsPrefix(s, t) == Len(s) <= Len(t) /\ SubSeq(t, 1, Len(s)) = s
CountStep(steps, name) == Cardinality({i \in 1..Len(steps) : steps[i] = name})

\* nothing is left to happen for worker w: its script has loaded or failed to,
\* every request has been handled to the end, every event has been dispatched
Quiescent(w) ==
    /\ events[w] = << >>
    /\ \/ workers[w].state = "loaderror"
       \/ /\ workers[w].state = "ready"
          /\ workers[w].inbox = << >>
          /\ \A r \in Runs(w) : workers[w].runs[r].pc \in {"done", "failed"}

\* C1: every solve call gets its response exactly once: never more than one
\* event is handed to its handlers, and once its worker has nothing left to
\* do the promise has been settled by exactly one delivery.
C1_DeliveredExactlyOnce ==
    \A c \in Calls :
        /\ calls[c].delivered <= 1
        /\ Quiescent(calls[c].worker) =>
             /\ calls[c].delivered = 1
             /\ calls[c].promise.state # "pending"

\* C2: a failure while the worker serves a request (init rejects,
\* get_challenge rejects, solve throws) reaches the caller as a rejection of
\* the promise: once the worker's events are dispatched, a call whose request
\* failed in the worker has a rejected promise.
C2_FailureRejectsPromise ==
    \A c \in Calls :
        LET w == calls[c].worker IN
        (/\ events[w] = << >>
         /\ \E r \in Runs(w) : workers[w].runs[r].pc = "failed")
        => calls[c].promise.state = "rejected"

\* C3: every solve call has a worker of its own, and a worker receives
\* exactly the request of its one call and no other.
C3_OwnWorkerPerCall ==
    /\ \A c, d \in Calls : c # d => calls[c].worker # calls[d].worker
    /\ \A c \in Calls :
         LET w == calls[c].worker
             got == workers[w].inbox \o [r \in Runs(w) |-> workers[w].runs[r].data]
         IN got = <<calls[c].request>>

C3_Witness ==
    /\ Len(calls) = 2
    /\ calls[1].client = calls[2].client
    /\ calls[1].request = calls[2].request
    /\ \A c \in Calls : /\ calls[c].promise.state = "pending"
                        /\ Len(workers[calls[c].worker].runs) = 1

\* C4: once the promise of a solve has settled, by success or by failure,
\* the worker made for that call is terminated.
C4_SettledWorkerTerminated ==
    \A c \in Calls :
        calls[c].promise.state # "pending" => workers[calls[c].worker].terminated

\* C5: when the caller has dropped interest in a pending solve, the worker of
\* that solve is terminated, at the latest when it has nothing left to do.
C5_DroppedWorkerTerminated ==
    \A c \in Calls :
        (calls[c].dropped /\ Quiescent(calls[c].worker))
        => workers[calls[c].worker].terminated

\* C6: a promise is resolved only with the token its own worker posted for its
\* own request, and rejected only by an error of its own worker.
C6_OwnTokenOnly ==
    \A c \in Calls :
        LET w == calls[c].worker IN
        /\ calls[c].promise.state = "resolved" =>
             \E r \in Runs(w) :
                /\ workers[w].runs[r].data = calls[c].request
                /\ workers[w].runs[r].pc = "done"
                /\ workers[w].runs[r].posted = <<calls[c].promise.value>>
        /\ calls[c].promise.state = "rejected" =>
             /\ workers[w].state = "loaderror"
             /\ calls[c].promise.error = <<ErrorPrefix, Undefined>>

C6_Witness ==
    /\ Len(calls) = 2
    /\ calls[1].promise.state = "resolved"
    /\ calls[2].promise.state = "resolved"
    /\ calls[1].promise.value # calls[2].promise.value

\* C7: a request is served in the order init, fetch, solve, encode, post: the
\* challenge is solved only once get_challenge has resolved with it, and the
\* one message posted is the token encode returns for the solution of the
\* fetched challenge.
C7_StepOrder ==
    \A w \in Workers : \A r \in Runs(w) :
        LET run == workers[w].runs[r] IN
        /\ IsPrefix(run.steps, StepOrder)
        /\ CountStep(run.steps, "solve") > 0 => run.challenge # << >>
        /\ run.challenge # << >> => run.challenge[1] \in IssuedTo(run.data)
        /\ run.pc # "done" => run.posted = << >>
        /\ run.pc = "done" =>
             /\ run.steps = StepOrder
             /\ Search(run.challenge[1], 0) # << >>
             /\ run.posted = <<Token(run.challenge[1], Search(run.challenge[1], 0)[1])>>

C7_Witness ==
    \E w \in Workers : \E r \in Runs(w) :
        /\ workers[w].runs[r].pc = "done"
        /\ workers[w].runs[r].posted # << >>
        /\ workers[w].runs[r].posted[1] # << >>
        /\ events[w] = <<[type |-> "message", data |-> workers[w].runs[r].posted[1],
                          error |-> ""]>>

\* C8: nothing is retried: the worker of a call receives one request message,
\* and a request is taken through init, get_challenge and solve at most once
\* each, also when a step fails.
C8_NoRetry ==
    /\ \A c \in Calls :
         Len(workers[calls[c].worker].inbox) + Len(workers[calls[c].worker].runs) = 1
    /\ \A w \in Workers : \A r \in Runs(w) :
         /\ CountStep(workers[w].runs[r].steps, "init") <= 1
         /\ CountStep(workers[w].runs[r].steps, "fetch") <= 1
         /\ CountStep(workers[w].runs[r].steps, "solve") <= 1

C8_Witness ==
    /\ Len(workers) = 2
    /\ Len(workers[1].runs) = 1
    /\ Len(workers[2].runs) = 1
    /\ workers[1].runs[1].pc = "failed"
    /\ workers[1].runs[1].err = "TransportError"
    /\ workers[2].runs[1].pc = "failed"
    /\ workers[2].runs[1].err = "Unsatisfiable"
    /\ Quiescent(1) /\ Quiescent(2)

\* a challenge that is not expired and has a proof within the attempt cap
Satisfiable(ch) ==
    /\ ~Expired(ch)
    /\ \E p \in 0..(MaxAttempts - 1) : verify(ch, p)

\* C9: solve on a challenge with a satisfiable difficulty returns a Solution
\* whose proof satisfies the difficulty of that challenge, and every Solution
\* made verifies against its source challenge.
C9_SolutionVerifies ==
    \A j \in 1..Len(objs) :
        objs[j].from > 0 =>
          LET C == heap[objs[objs[j].from].obj.wbg_ptr].ch
              p == objs[j].obj.wbg_ptr
          IN
          /\ Satisfiable(C) => objs[j].err = ""
          /\ objs[j].err = "" =>
               /\ p \in 1..Len(heap)
               /\ heap[p].kind = "solution"
               /\ heap[p].ch = C
               /\ verify(C, heap[p].proof)

C9_Witness ==
    \E j \in 1..Len(objs) :
        /\ objs[j].from > 0
        /\ objs[j].err = ""
        /\ heap[objs[j].obj.wbg_ptr].proof > 0
        /\ heap[objs[j].obj.wbg_ptr].ch.difficulty = DigestBits

\* the challenge that solve record j was called on
SourceOf(j) == heap[objs[objs[j].from].obj.wbg_ptr].ch

PairOf(i) ==
    LET ptr == objs[i].obj.wbg_ptr IN
    IF ptr \in 1..Len(heap) /\ heap[ptr].kind = "solution"
    THEN <<heap[ptr].ch, heap[ptr].proof>>
    ELSE << >>

\* any two strings encode has returned for the same (Challenge, proof) pair,
\* from one Solution or from two, are the same string
EncodeDeterministic ==
    \A e1, e2 \in tokens : PairOf(e1.sol) = PairOf(e2.sol) => e1.token = e2.token

\* a call of encode leaves the Solution it is called on, and the heap, as is
EncodeKeepsSolution ==
    \A i \in 1..Len(objs) :
        (\E e \in tokens' : e.sol = i /\ e \notin tokens)
        => /\ objs'[i] = objs[i]
           /\ heap' = heap

\* C12: encode is deterministic and does not change the Solution: encoding
\* the same (Challenge, proof) pair twice, on the same Solution or on two
\* Solutions of the same pair, gives identical tokens, and a call of encode
\* leaves the Solution as it was.
C12_EncodeDeterministic == []EncodeDeterministic /\ [][EncodeKeepsSolution]_vars

\* two Solutions of one challenge have both been encoded
C12_Witness ==
    \E e1, e2 \in tokens :
        /\ e1.sol # e2.sol
        /\ PairOf(e1.sol) # << >>
        /\ PairOf(e1.sol) = PairOf(e2.sol)
        /\ e1.token = e2.token
        /\ e1.token # << >>

\* the characters of URL-safe base64
UrlSafeChars ==
    {"A","B","C","D","E","F","G","H","I","J","K","L","M","N","O","P","Q","R","S",
     "T","U","V","W","X","Y","Z","a","b","c","d","e","f","g","h","i","j","k","l",
     "m","n","o","p","q","r","s","t","u","v","w","x","y","z","0","1","2","3","4",
     "5","6","7","8","9","-","_"}

\* C18: encode returns a non-empty string over the URL-safe base64 alphabet:
\* every character is a letter, a digit, '-' or '_', and none is '+', '/' or
\* the padding '='.
C18_UrlSafeToken ==
    \A e \in tokens :
        /\ e.token # << >>
        /\ \A k \in 1..Len(e.token) :
              /\ e.token[k] \in UrlSafeChars
              /\ e.token[k] \notin {"+", "/", "="}

\* a token that uses both characters in which URL-safe base64 differs from
\* standard base64
C18_Witness ==
    \E e \in tokens :
        /\ \E k \in 1..Len(e.token) : e.token[k] = "-"
        /\ \E k \in 1..Len(e.token) : e.token[k] = "_"

\* C19: raw_size returns a non-negative integer, the byte length of the
\* serialized form that encode turns into the token, and the token of that
\* Solution has ceil(4 * rawSize / 3) characters.
C19_RawSize ==
    \A z \in sizes :
        /\ z.size \in Nat
        /\ PairOf(z.sol) # << >>
        /\ z.size = Len(Serialize(PairOf(z.sol)[1], PairOf(z.sol)[2]))
        /\ \A e \in tokens :
              e.sol = z.sol => Len(e.token) = (4 * z.size + 2) \div 3

\* raw_size and encode were both called on a Solution whose size is not a
\* multiple of three, so the rounding up matters
C19_Witness ==
    \E z \in sizes : \E e \in tokens :
        /\ e.sol = z.sol
        /\ z.size % 3 = 1
        /\ 3 * Len(e.token) > 4 * z.size

\* C13: the domain only routes the fetch and never enters the search: two
\* requests whose fetch returned the same challenge end the same way, with
\* the same error or the same posted token, whatever their domains.
C13_DomainOnlyRoutes ==
    \A w1, w2 \in Workers : \A r1 \in Runs(w1), r2 \in Runs(w2) :
        LET a == workers[w1].runs[r1]
            b == workers[w2].runs[r2]
        IN
        (a.challenge # << >> /\ a.challenge = b.challenge)
        => /\ a.pc = b.pc
           /\ a.err = b.err
           /\ a.posted = b.posted

\* two requests for different domains got the same challenge and posted it
C13_Witness ==
    /\ Len(workers) = 2
    /\ Len(workers[1].runs) = 1 /\ Len(workers[2].runs) = 1
    /\ workers[1].runs[1].data.domain # workers[2].runs[1].data.domain
    /\ workers[1].runs[1].pc = "done"
    /\ workers[2].runs[1].pc = "done"
    /\ workers[1].runs[1].challenge = workers[2].runs[1].challenge
    /\ workers[1].runs[1].posted = workers[2].runs[1].posted
    /\ workers[1].runs[1].posted[1] # << >>

\* C14: a client made without an argument has the domain
\* "quack.duckity.dev" and a client made with d has d; the request solve
\* posts carries exactly the client's domain and the appId and profileCode
\* given to solve, and the worker calls with_domain and get_challenge with
\* exactly these three values.
C14_RequestForwarded ==
    /\ clients[1].domain = "quack.duckity.dev"
    /\ clients[2].domain = "quack.example.com"
    /\ \A c \in Calls :
         LET w == calls[c].worker
             sent == [domain |-> clients[calls[c].client].domain,
                      appId |-> calls[c].appId,
                      profileCode |-> calls[c].profileCode]
         IN
         /\ calls[c].request = sent
         /\ workers[w].inbox \in {<<sent>>, << >>}
         /\ \A r \in Runs(w) :
              /\ workers[w].runs[r].data = sent
              /\ workers[w].runs[r].args \in {<<sent>>, << >>}
              /\ workers[w].runs[r].pc \in {"fetch", "done"} =>
                    workers[w].runs[r].args = <<sent>>

\* both clients have a request whose fetch was started by the worker
C14_Witness ==
    \E c, d \in Calls :
        /\ calls[c].client = 1 /\ calls[d].client = 2
        /\ \A e \in {c, d} :
             /\ Len(workers[calls[e].worker].runs) = 1
             /\ workers[calls[e].worker].runs[1].args = <<calls[e].request>>
        /\ calls[c].request.domain # calls[d].request.domain

\* C15: the client is stateless per call: solve leaves the client's domain
\* as it was and stores nothing on the client, so after any sequence of solve
\* calls the clients are as they were after construction.
C15_ClientUntouched ==
    /\ clients = <<[domain |-> "quack.duckity.dev"], [domain |-> "quack.example.com"]>>
    /\ \A k \in 1..Len(clients) : DOMAIN clients[k] = {"domain"}

\* two solve calls on the same client have both been answered
C15_Witness ==
    /\ Len(calls) = 2
    /\ calls[1].client = calls[2].client
    /\ calls[1].promise.state = "resolved"
    /\ calls[2].promise.state = "resolved"

\* the step is a solve call: a call record has been added
SolveReturnsPending ==
    \A c \in 1..Len(calls') :
        c > Len(calls) =>
          LET w == calls'[c].worker IN
          /\ calls'[c].promise.state = "pending"
          /\ workers'[w].state = "loading"
          /\ workers'[w].runs = << >>
          /\ workers'[w].inbox = <<calls'[c].request>>
          /\ events'[w] = << >>

\* a promise changes only from pending, and only in a step that takes a
\* message or error event of its own worker off the queue
SettledOnlyByEvent ==
    \A c \in Calls :
        calls'[c].promise # calls[c].promise =>
          LET w == calls[c].worker IN
          /\ calls[c].promise.state = "pending"
          /\ events[w] # << >>
          /\ Head(events[w]).type \in {"message", "error"}
          /\ events'[w] = Tail(events[w])

C17_ReleasedOnExit ==
    \A w \in Workers :
        (Runs(w) # {} /\ \A r \in Runs(w) : workers[w].runs[r].pc \in {"done", "failed"})
        => \A p \in 1..Len(workers[w].heap) : workers[w].heap[p].kind = "freed"

\* the request of call c, wherever it is in its worker
RequestsOf(c) ==
    LET w == calls[c].worker IN
    {workers[w].inbox[i] : i \in 1..Len(workers[w].inbox)}
    \cup {workers[w].runs[r].data : r \in Runs(w)}
    \cup {workers[w].runs[r].args[1] : r \in {q \in Runs(w) : workers[w].runs[q].args # << >>}}

\* the domain every request of a call carries is the one the client had when
\* solve was called
DomainAtCallTime ==
    \A c \in Calls : \A q \in RequestsOf(c) : q.domain = calls[c].domainAtCall

\* a solve call takes the domain the client has at that moment, and an
\* assignment to client.domain changes no call and no worker
DomainStepsApart ==
    /\ \A c \in 1..Len(calls') :
         c > Len(calls) => /\ calls'[c].domainAtCall = clients[calls'[c].client].domain
                           /\ calls'[c].request.domain = clients[calls'[c].client].domain
    /\ clients' # clients => /\ calls' = calls
                             /\ workers' = workers

\* C20: the domain an in-flight solve uses is the client's domain at the
\* moment solve was called: assigning client.domain while the promise is
\* pending changes nothing the worker of that call sees, and only calls made
\* afterwards carry the new domain.
C20_DomainAtCallTime == []DomainAtCallTime /\ [][DomainStepsApart]_vars

\* the domain was assigned while the first call was pending; its worker
\* fetched with the old domain, and a second call carries the new one
C20_Witness ==
    /\ Len(calls) = 2
    /\ calls[1].client = 1 /\ calls[2].client = 1
    /\ calls[1].promise.state = "pending"
    /\ Len(workers[calls[1].worker].runs) = 1
    /\ workers[calls[1].worker].runs[1].args # << >>
    /\ workers[calls[1].worker].runs[1].args[1].domain = "quack.duckity.dev"
    /\ clients[1].domain = "quack.example.com"
    /\ calls[2].request.domain = "quack.example.com"

\* the number of events of worker w the main thread has dispatched
Dispatched(w) == workers[w].emitted - Len(events[w])

\* the step dispatches the first event of a call's worker: a listener of the
\* call for that type of event is registered, its handler runs and settles
\* the promise
FirstEventObserved ==
    \A c \in Calls :
        LET w == calls[c].worker IN
        (/\ events[w] # << >>
         /\ events'[w] = Tail(events[w])
         /\ Dispatched(w) = 0)
        => /\ [type |-> Head(events[w]).type, call |-> c] \in listeners[w]
           /\ calls'[c].delivered = 1
           /\ calls'[c].promise.state # "pending"

\* C21: no response is lost to the registration order in solve: the request
\* is posted before the listeners are attached, and the worker may fire its
\* event in between, but that event is dispatched only once both listeners
\* are registered, so the first event of the worker reaches a handler.
C21_NoLostEvent == [][FirstEventObserved]_vars

\* the worker has fired an event while solve was between postMessage and
\* waitForMessage
C21_Witness ==
    \E c \in Calls :
        /\ calls[c].pc = "posted"
        /\ listeners[calls[c].worker] = {}
        /\ events[calls[c].worker] # << >>

\* the success handler of a call has run at most once
SuccessOnce ==
    \A c \in Calls : CountStep(calls[c].handled, "success") <= 1

\* a promise that has been settled stays as it is
SettledStays ==
    \A c \in Calls :
        calls[c].promise.state # "pending" => calls'[c].promise = calls[c].promise

\* C22: the first event wins in waitForMessage: a promise resolved by a
\* message is not changed by a later message or error event, a promise
\* rejected by an error is not resolved by a later message, and the success
\* handler runs at most once.
C22_FirstEventWins == []SuccessOnce /\ [][SettledStays]_vars

\* a call was resolved by a message, and an error event that came later ran
\* the error handler without changing the outcome
C22_Witness ==
    \E c \in Calls :
        /\ calls[c].handled = <<"success", "error">>
        /\ calls[c].promise.state = "resolved"
        /\ calls[c].promise.value = <<"A">>

\* C23: once the promise of a call has settled, by a message or by an error
\* event, neither listener that waitForMessage registered for the call is
\* still on the worker.
C23_ListenersRemoved ==
    \A c \in Calls :
        calls[c].promise.state # "pending" =>
          \A l \in listeners[calls[c].worker] : l.call # c

\* C24: over any sequence of __wbg_init and initSync calls, overlapping ones
\* included, the module is instantiated at most once, __wbindgen_start is
\* called at most once, and every call that returns returns the same exports.
C24_InitialisedOnce ==
    /\ loader.instances <= 1
    /\ loader.starts <= 1
    /\ \A i, j \in InitCalls :
         (loader.calls[i].pc = "returned" /\ loader.calls[j].pc = "returned")
           => loader.calls[i].ret = loader.calls[j].ret

NonZeroFrees(i) ==
    {k \in 1..Len(life.frees) : life.frees[k].obj = i /\ life.frees[k].ptr # 0}

\* C25: over any sequence of free() calls and finalizer runs, the native
\* free is invoked with a wrapper's non-zero pointer at most once, and no
\* native object is freed twice.
C25_NoDoubleFree ==
    /\ \A i \in LifeObjs : Cardinality(NonZeroFrees(i)) <= 1
    /\ \A k, n \in 1..Len(life.frees) :
         (k # n /\ life.frees[k].ptr # 0) => life.frees[k].ptr # life.frees[n].ptr

\* free() twice on one wrapper: the second call passes 0
C25_Witness ==
    \E i \in LifeObjs, k, n \in 1..Len(life.frees) :
        /\ k < n
        /\ life.frees[k] = FreeCall(i, life.objs[i].held, 0)
        /\ life.objs[i].held # 0
        /\ life.frees[n] = FreeCall(i, 0, 0)

\* C26: after free() every later method call of the wrapper (solve, encode,
\* raw_size, get_challenge) passes pointer 0 and never the freed pointer.
C26_NoUseAfterFree ==
    \A k \in 1..Len(life.passed) :
        life.passed[k].afterFree
          => /\ life.passed[k].ptr = 0
             /\ life.passed[k].ptr # life.objs[life.passed[k].obj].held

\* a Solution that was freed and then asked for encode and for raw_size
C26_Witness ==
    \E k, n \in 1..Len(life.passed) :
        /\ life.passed[k].afterFree /\ life.passed[k].op = "encode"
        /\ life.passed[n].afterFree /\ life.passed[n].op = "raw_size"
        /\ life.passed[n].obj = life.passed[k].obj
        /\ life.objs[life.passed[k].obj].held # 0

LiveDtors == {k \in 1..Len(closure.dtors) : closure.dtors[k].a # 0}

\* the destructor calls that _wbg_cb_unref made, in order
UnrefDtors == SelectSeq(closure.dtors, LAMBDA d : d.by # "registry")

\* C27: a closure is never destroyed while one of its invocations is in
\* progress: the count is 1 plus the invocations in progress minus the
\* references the wasm side dropped, the destructor gets the live pointer
\* only when no call is in progress, state.a is 0 during a call so that a
\* re-entrant invocation receives 0, and state.a is back once the calls have
\* ended, by return or by throw, unless the closure was destroyed.
C27_NoDestroyDuringCall ==
    /\ closure.cnt = 1 + Depth - Len(closure.unrefsAt)
    /\ \A k \in LiveDtors : closure.dtors[k].depth = 0
    /\ Depth > 0 => closure.a = 0
    /\ \A k \in 2..Depth : closure.stack[k].got = 0
    /\ Depth = 0 =>
         closure.a = IF \E k \in LiveDtors : closure.dtors[k].by # "registry"
                     THEN 0 ELSE EnvPtr

\* a reference dropped during a call that then threw: the destructor ran
\* once, with the live pointer, after the call had ended
C27_Witness ==
    /\ closure.unrefsAt = <<1>>
    /\ closure.threw
    /\ closure.dtors = <<[a |-> EnvPtr, by |-> "real", depth |-> 0]>>

ClosureCounted ==
    /\ closure.cnt >= 0
    /\ Cardinality(LiveDtors) <= 1
    /\ \A k \in 1..Len(UnrefDtors) : UnrefDtors[k].a # 0 <=> k = 1

\* C28 as stated: over any sequence of invocations and _wbg_cb_unref calls the
\* destructor is called with the live pointer at most once, exactly when the
\* count first drops to zero, and the count never becomes negative.
C28_AnySequence == ClosureCounted

\* C28, amended: the same, over the sequences in which the wasm side calls
\* _wbg_cb_unref at most once.
C28_DestroyedOnce == Len(closure.unrefsAt) <= 1 => ClosureCounted

\* the count dropped to zero twice: the first time the destructor was given
\* the live pointer, the second time, after a later invocation, 0
C28_Witness ==
    /\ Len(closure.unrefsAt) <= 1
    /\ closure.dtors = <<[a |-> EnvPtr, by |-> "wasm", depth |-> 0],
                         [a |-> 0, by |-> "real", depth |-> 0]>>

BufferFrees(e) == {k \in 1..Len(e.steps) : e.steps[k].op = "__wbindgen_free"}

\* C29: each encode call invokes __wbindgen_free exactly once, as its last
\* step; when solution_encode returned, with the pointer and length it
\* returned and after the decoding, also when the decoding throws; when
\* solution_encode throws, with no valid buffer (pointer 0, length 0).
C29_EncodeFreesBuffer ==
    \A n \in 1..Len(life.encodes) :
        LET e == life.encodes[n]
            last == e.steps[Len(e.steps)]
        IN  /\ BufferFrees(e) = {Len(e.steps)}
            /\ IF e.threw = "solution_encode"
               THEN last.ptr = 0 /\ last.len = 0
               ELSE /\ e.ret.ptr # 0
                    /\ last.ptr = e.ret.ptr /\ last.len = e.ret.len
                    /\ \E k \in 1..(Len(e.steps) - 1) :
                         e.steps[k] = Step("getStringFromWasm0", e.ret.ptr, e.ret.len)

\* one encode whose decoding threw and one whose solution_encode threw
C29_Witness ==
    \E n, k \in 1..Len(life.encodes) :
        /\ life.encodes[n].threw = "getStringFromWasm0"
        /\ life.encodes[k].threw = "solution_encode"

\* C10: a challenge whose expiresAt is in the past makes solve fail with
\* Expired before any search or encoding, and that error reaches the caller:
\* once the worker's events are dispatched the promise is rejected.
C10_ExpiredReachesCaller ==
    \A c \in Calls :
        LET w == calls[c].worker IN
        \A r \in Runs(w) :
            LET run == workers[w].runs[r] IN
            (run.challenge # << >> /\ Expired(run.challenge[1])) =>
                /\ run.pc = "failed"
                /\ run.err = "Expired"
                /\ CountStep(run.steps, "encode") = 0
                /\ events[w] = << >> => calls[c].promise.state = "rejected"

====
